---- MODULE Spec2Model ----
(***************************************************************************)
(* api-dispatcher (dispatcher.go): one submission (a config file on the    *)
(* CLI path, a request on one of the two listeners on the server path) is  *)
(* decoded into a batch; one sendRequest goroutine per descriptor publishes *)
(* one line on the unbuffered channel `results`; one consumer goroutine     *)
(* ranges over `results` and writes every line to the sink; the caller      *)
(* waits on the WaitGroup, closes `results` and returns.                    *)
(***************************************************************************)
EXTENDS Naturals, Integers, Sequences, FiniteSets, TLC

\* ------------------------------------------------------------------ bounds
\* Largest batch (len(config.Requests)) explored.
MaxBatch == 2

\* ------------------------------------------------------- descriptors
\* A Go map[string]string is a set of <<key, value>> pairs with unique keys.
\* Body carries `present` because sendRequest tests config.Body != nil.
NoBody == [present |-> FALSE, fields |-> {}]

DescOk ==
    [URL |-> "https://example.test/ok", Method |-> "GET",
     Headers |-> {<<"Accept", "application/json">>}, Body |-> NoBody]

DescDown ==
    [URL |-> "https://example.test/down", Method |-> "POST",
     Headers |-> {<<"content-type", "application/json">>},
     Body |-> [present |-> TRUE, fields |-> {<<"title", "foo">>}]]

DescBad ==
    [URL |-> "::bad", Method |-> "GET", Headers |-> {}, Body |-> NoBody]

\* The RequestConfig values a submission may carry.
Descriptors == {DescOk, DescDown, DescBad}

RECURSIVE SeqsOf(_, _)
SeqsOf(S, n) ==
    IF n = 0 THEN {<<>>}
    ELSE LET shorter == SeqsOf(S, n - 1)
         IN  shorter \cup {Append(s, d) : s \in {t \in shorter : Len(t) = n - 1}, d \in S}

\* Config.Requests values of length 0..MaxBatch.
Batches == SeqsOf(Descriptors, MaxBatch)

\* Further RequestConfig values, submitted one at a time: the other methods
\* with and without a body, and header names that differ in letter case only.
WithBody == [present |-> TRUE, fields |-> {<<"title", "foo">>}]

DescPut ==
    [URL |-> "https://example.test/ok", Method |-> "PUT", Headers |-> {}, Body |-> WithBody]

DescPatch ==
    [URL |-> "https://example.test/ok", Method |-> "PATCH", Headers |-> {}, Body |-> WithBody]

DescGetBody ==
    [URL |-> "https://example.test/ok", Method |-> "GET", Headers |-> {}, Body |-> WithBody]

DescPostNoBody ==
    [URL |-> "https://example.test/ok", Method |-> "POST", Headers |-> {}, Body |-> NoBody]

DescPostEmptyBody ==
    [URL |-> "https://example.test/ok", Method |-> "POST", Headers |-> {},
     Body |-> [present |-> TRUE, fields |-> {}]]

DescCase ==
    [URL |-> "https://example.test/ok", Method |-> "GET",
     Headers |-> {<<"X-Id", "1">>, <<"x-id", "2">>}, Body |-> NoBody]

DescTwoHeaders ==
    [URL |-> "https://example.test/ok", Method |-> "GET",
     Headers |-> {<<"accept", "text/plain">>, <<"X-Id", "1">>}, Body |-> NoBody]

UnitDescriptors ==
    Descriptors \cup {DescPut, DescPatch, DescGetBody, DescPostNoBody,
                      DescPostEmptyBody, DescCase, DescTwoHeaders}

\* Config.Requests values of length 0 and 1 over the wider descriptor set.
UnitBatches == {<<>>} \cup {<<d>> : d \in UnitDescriptors}

\* What the environment can answer to client.Do and ioutil.ReadAll.
TransportErrors == {"connection refused"}
ReadErrors == {"unexpected EOF"}
ResponseBodies == {"hello"}

\* ------------------------------------------------- sendRequest helpers
\* http.NewRequest validates the method (a token) and parses the URL; the
\* result is the error text, "" when construction succeeds.
NewRequestError(method, url) ==
    IF method = "BAD METHOD" THEN "net/http: invalid method \"BAD METHOD\""
    ELSE IF url = "::bad" THEN "parse \"::bad\": missing protocol scheme"
    ELSE ""

\* json.Marshal of a map[string]string (the descriptors carry at most one field).
Marshal(fields) ==
    IF fields = {} THEN "{}"
    ELSE LET p == CHOOSE q \in fields : TRUE
         IN  "{\"" \o p[1] \o "\":\"" \o p[2] \o "\"}"

\* dispatcher.go:42-47, the body handed to http.NewRequest ("" is the nil body).
Payload(config) ==
    IF config.Method = "POST" /\ config.Body.present
    THEN Marshal(config.Body.fields)
    ELSE ""

\* textproto.CanonicalMIMEHeaderKey, as req.Header.Set applies it.
CanonicalKey(k) ==
    CASE k = "content-type" -> "Content-Type"
      [] k = "accept" -> "Accept"
      [] k = "x-id" -> "X-Id"
      [] OTHER -> k

\* req.Header.Set(key, value): the canonical key now maps to value alone.
HeaderSet(header, key, value) ==
    {h \in header : h[1] # CanonicalKey(key)} \cup {<<CanonicalKey(key), value>>}

\* The for-range over config.Headers visiting the entries in the order `order`.
RECURSIVE ApplyHeaders(_, _)
ApplyHeaders(header, order) ==
    IF order = <<>> THEN header
    ELSE ApplyHeaders(HeaderSet(header, Head(order)[1], Head(order)[2]), Tail(order))

\* Every order in which Go may range over the map.
RangeOrders(m) ==
    {s \in SeqsOf(m, Cardinality(m)) :
        Len(s) = Cardinality(m) /\ {s[j] : j \in 1..Len(s)} = m}

\* fmt.Sprintf of the four result lines of sendRequest.
CreateErrorLine(url, err) == "Error creating request for " \o url \o ": " \o err
\* Faulty variant: the transmission failure line in another wording.
SendErrorLineWithStage(url, err) == "Error transmission for " \o url \o ": " \o err
SendErrorLine(url, err) == "Error sending request to " \o url \o ": " \o err
ReadErrorLine(url, err) == "Error reading response from " \o url \o ": " \o err
ResponseLine(url, body) == "Response from " \o url \o ": " \o body

\* fate is a history variable: the stage at which a sendRequest run ended
\* ("create", "send", "read", "ok") and the error or body text it was given.
NoFate == [stage |-> "running", msg |-> ""]

\* The line sendRequest sends for a descriptor, by the stage it ended at.
OutcomeLine(cfg, f) ==
    CASE f.stage = "create" -> CreateErrorLine(cfg.URL, f.msg)
      [] f.stage = "send" -> SendErrorLine(cfg.URL, f.msg)
      [] f.stage = "read" -> ReadErrorLine(cfg.URL, f.msg)
      [] f.stage = "ok" -> ResponseLine(cfg.URL, f.msg)
      [] OTHER -> ""

\* The ways an execution of a descriptor can end.
Fates(cfg) ==
    IF NewRequestError(cfg.Method, cfg.URL) # ""
    THEN {[stage |-> "create", msg |-> NewRequestError(cfg.Method, cfg.URL)]}
    ELSE {[stage |-> "send", msg |-> e] : e \in TransportErrors}
         \cup {[stage |-> "read", msg |-> e] : e \in ReadErrors}
         \cup {[stage |-> "ok", msg |-> b] : b \in ResponseBodies}

\* -------------------------------------------------- listeners (main, -http3)
\* The Handler field each server value is built with: the net/http server is
\* given handleAPIRequest, the http3.Server literal sets Addr and TLSConfig only.
ListenerHandler(l) ==
    IF l = "h1" THEN "handleAPIRequest" ELSE "nil"

\* A nil Handler serves http.DefaultServeMux, on which main registers nothing.
RoutesToDispatch(l) == ListenerHandler(l) = "handleAPIRequest"

\* Faulty variant: the method check left out.
AnyMethodAllowed(m) == TRUE
\* handleAPIRequest: r.Method != http.MethodPost is refused.
MethodAllowed(m) == m = "POST"

StatusMethodNotAllowed == 405
StatusBadRequest == 400

\* ------------------------------------------------------ WaitGroup, defers
\* Faulty variant: the counter raised twice per goroutine.
WgAfterAddDouble(n) == n + 2
\* wg.Add(1)
WgAfterAdd(n) == n + 1

\* wg.Done()
WgAfterDone(n) == n - 1

\* Faulty variant: wg.Wait left out.
WaitReturnsAtOnce(n) == TRUE
\* wg.Wait() returns when the counter is zero.
WaitReturns(n) == n = 0

\* Faulty variant: the defer left out.
NoDeferred == <<>>
\* defer wg.Done() on entry of sendRequest (the stack of deferred calls).
DeferredAtEntry == <<"wg.Done">>

\* defer resp.Body.Close() once client.Do has answered.
DeferClose(stack) == <<"resp.Body.Close">> \o stack

\* Faulty variant: a receive loop that does not test for the closed channel
\* and handles the zero value it then receives.
RangeEndsWithZeroValue == <<"">>
\* What `for result := range results` hands to the loop body when the channel
\* is found closed: nothing, the loop ends.
RangeEndLines == <<>>

\* Faulty variant: results is one package-level channel.
ChanShared(r) == 1
\* The channel of invocation r: `results := make(chan string)` is a local of
\* handleAPIRequest, made anew by each invocation.
ChanOf(r) == r

\* The WaitGroup of invocation r: `var wg sync.WaitGroup` is a local of
\* handleAPIRequest as well.
WgOf(r) == r

\* Faulty variant: the caller leaves the channel open.
LeftOpen == FALSE
\* Whether results is closed once the caller is past close(results).
ClosedByCaller == TRUE

\* Faulty variant: the channel has room, a send completes with no receiver.
SendNeedsNoReceiver(c) == TRUE
\* results is made without a capacity: a send completes only when the
\* consumer is at its receive.
SendCompletes(c) == c = "recv"

\* Faulty variant: the header loop rewrites the map's keys in canonical form.
HeadersCanonicalisedInPlace(h) == {<<CanonicalKey(e[1]), e[2]>> : e \in h}
\* config.Headers after the header loop: the loop ranges over the map and
\* passes key and value to req.Header.Set, which copies them; the map, which
\* the goroutine's copy of the descriptor shares with the batch, is only read.
HeadersAfterLoop(h) == h

\* Faulty variant: the command path prints the value in quoted form.
SinkLineQuotedOnCli(m, result) == IF m = "cli" THEN "\"" \o result \o "\"" ELSE result
\* The line the consumer writes for a received result: fmt.Println(result) on
\* the command path, fmt.Fprintln(w, result) on the server path. Both write
\* the string as it is, followed by a newline.
SinkLine(m, result) == IF m = "cli" THEN result ELSE result

\* Faulty variant: every goroutine reads the descriptor the loop ended on.
LaunchArgShared(requests, i) == requests[Len(requests)]
\* The argument of `go sendRequest(reqConfig, ...)` in the i-th iteration: the
\* i-th descriptor, copied when the go statement is evaluated.
LaunchArg(requests, i) == requests[i]

\* Faulty variant: a failed transmission is tried again.
RetryTransmission == "do"
\* Where sendRequest goes on a client.Do error: to the send of the failure
\* line, after which it returns.
AfterTransmissionError == "send"

\* Faulty variant: one variable shared by all the goroutines.
SetShared(f, i, v) == [j \in DOMAIN f |-> v]
\* Assignment to a local of the i-th sendRequest goroutine.
SetLocal(f, i, v) == [f EXCEPT ![i] = v]

\* ------------------------------------------------------------------ state
VARIABLES
    mode,        \* "cli" (-config) or "server" (-http3)
    listener,    \* server: the listener the request arrived on ("h1", "h3")
    reqMethod,   \* server: r.Method
    readOk,      \* ioutil.ReadFile / ioutil.ReadAll(r.Body) succeeds
    decodeOk,    \* json.Unmarshal succeeds
    batch,       \* the Requests the submission decodes to
    pc,          \* position of the caller (main / handleAPIRequest)
    config,      \* config.Requests after loadConfigFromBody
    idx,         \* position of the launch loop in config.Requests
    status,      \* HTTP status of the response (0: none yet)
    exitCode,    \* -1 while the process runs, else its exit code
    chanMade,    \* results := make(chan string) has run
    closed,      \* close(results) has run
    closeCount,  \* number of close(results) calls
    wg,          \* WaitGroup counter
    callerDone,  \* main / handleAPIRequest has returned
    wpc,         \* position of each sendRequest goroutine
    wcfg,        \* its config argument (passed by value)
    req,         \* its *http.Request
    line,        \* the string it is about to send on results
    deferred,    \* its stack of deferred calls
    published,   \* number of sends on results it has completed
    doneCalls,   \* number of wg.Done calls it has made
    fate,        \* history: stage it ended at and the error / body text
    calls,       \* history: how often it ran NewRequest, the header loop, Do, ReadAll
    cpc,         \* position of the consumer goroutine
    result,      \* the consumer's loop variable
    resultFrom,  \* history: the worker that sent it
    sink,        \* lines on stdout / the response writer
    sinkFrom,    \* history: the worker each sink line came from
    lateWrites,  \* lines that reached the sink after the caller returned
    sentOnClosed, \* a send on the closed channel happened
    \* Two handleAPIRequest invocations running on one server:
    hBatch,      \* per invocation: the Requests its body decoded to
    hPc,         \* per invocation: position of handleAPIRequest
    hIdx,        \* per invocation: position of its launch loop
    hDone,       \* per invocation: handleAPIRequest has returned
    hWg,         \* per WaitGroup object: its counter
    hChan,       \* per channel object: "none", "open" or "closed"
    hWpc,        \* per invocation and descriptor: position of its sendRequest
    hLine,       \* per invocation and descriptor: the line it sends
    hCpc,        \* per invocation: position of its consumer goroutine
    hResult,     \* per invocation: what its consumer received last, and from whom
    hResp,       \* per invocation: the lines written to its response, and from whom
    hExit        \* -1 while the server process runs, else its exit code

server == <<hBatch, hPc, hIdx, hDone, hWg, hChan, hWpc, hLine, hCpc, hResult, hResp, hExit>>
inputs == <<mode, listener, reqMethod, readOk, decodeOk, batch>>
caller == <<pc, config, idx, status, exitCode, chanMade, closed, closeCount, wg, callerDone>>
workers == <<wpc, wcfg, req, line, deferred, published, doneCalls, fate, calls>>
consumer == <<cpc, result, resultFrom, sink, sinkFrom, lateWrites>>
vars == <<inputs, caller, workers, consumer, sentOnClosed, server>>

\* The two invocations, each named by the number of its request; the
\* WaitGroup and the channel an invocation declares are named after it.
Handlers == {1, 2}
NoResult == [text |-> "", of |-> <<0, 0>>]

\* The two-invocation server with no request on it.
ServerIdle ==
    /\ hBatch = [r \in Handlers |-> <<>>]
    /\ hPc = [r \in Handlers |-> "done"]
    /\ hIdx = [r \in Handlers |-> 1]
    /\ hDone = [r \in Handlers |-> FALSE]
    /\ hWg = [o \in Handlers |-> 0]
    /\ hChan = [o \in Handlers |-> "none"]
    /\ hWpc = [r \in Handlers |-> <<>>]
    /\ hLine = [r \in Handlers |-> <<>>]
    /\ hCpc = [r \in Handlers |-> "none"]
    /\ hResult = [r \in Handlers |-> NoResult]
    /\ hResp = [r \in Handlers |-> <<>>]
    /\ hExit = -1

N == Len(batch)
Workers == 1..N
Live == exitCode = -1
NoRequest == [payload |-> "", header |-> {}]
NoCalls == [new |-> 0, headers |-> 0, do |-> 0, read |-> 0]

\* The program at its start, the submission decoding to one of `batches`.
InitWith(batches) ==
    /\ mode \in {"cli", "server"}
    /\ listener \in (IF mode = "server" THEN {"h1", "h3"} ELSE {"none"})
    /\ reqMethod \in (IF mode = "server" THEN {"POST", "GET"} ELSE {""})
    /\ readOk \in BOOLEAN
    /\ decodeOk \in BOOLEAN
    /\ batch \in (IF readOk /\ decodeOk THEN batches ELSE {<<>>})
    /\ pc = IF mode = "server" THEN "route" ELSE "readFile"
    /\ config = <<>>
    /\ idx = 1
    /\ status = 0
    /\ exitCode = -1
    /\ chanMade = FALSE
    /\ closed = FALSE
    /\ closeCount = 0
    /\ wg = 0
    /\ callerDone = FALSE
    /\ wpc = [i \in Workers |-> "idle"]
    /\ wcfg = [i \in Workers |-> DescOk]
    /\ req = [i \in Workers |-> NoRequest]
    /\ line = [i \in Workers |-> ""]
    /\ deferred = [i \in Workers |-> <<>>]
    /\ published = [i \in Workers |-> 0]
    /\ doneCalls = [i \in Workers |-> 0]
    /\ fate = [i \in Workers |-> NoFate]
    /\ calls = [i \in Workers |-> NoCalls]
    /\ cpc = "none"
    /\ result = ""
    /\ resultFrom = 0
    /\ sink = <<>>
    /\ sinkFrom = <<>>
    /\ lateWrites = 0
    /\ sentOnClosed = FALSE
    /\ ServerIdle

Init == InitWith(Batches)

\* One descriptor at a time, over the wider descriptor set.
UnitInit == InitWith(UnitBatches)

\* ------------------------------------------------- caller: before dispatch
\* log.Fatalf: the process exits with status 1.
Fatal ==
    /\ exitCode' = 1
    /\ pc' = "done"

\* main, CLI path: ioutil.ReadFile(*configFile).
ReadFile ==
    /\ Live /\ pc = "readFile"
    /\ IF readOk
       THEN pc' = "decode" /\ UNCHANGED exitCode
       ELSE Fatal
    /\ UNCHANGED <<server, inputs, config, idx, status, chanMade, closed, closeCount, wg,
                   callerDone, workers, consumer, sentOnClosed>>

\* The listener hands the request to its Handler; without one the request is
\* answered by the empty default mux (404) and handleAPIRequest never runs.
Route ==
    /\ Live /\ pc = "route"
    /\ IF RoutesToDispatch(listener)
       THEN pc' = "checkMethod" /\ UNCHANGED <<status, callerDone>>
       ELSE pc' = "done" /\ status' = 404 /\ callerDone' = TRUE
    /\ UNCHANGED <<server, inputs, config, idx, exitCode, chanMade, closed, closeCount, wg,
                   workers, consumer, sentOnClosed>>

\* handleAPIRequest: the method check.
CheckMethod ==
    /\ Live /\ pc = "checkMethod"
    /\ IF MethodAllowed(reqMethod)
       THEN pc' = "readBody" /\ UNCHANGED <<status, callerDone>>
       ELSE pc' = "done" /\ status' = StatusMethodNotAllowed /\ callerDone' = TRUE
    /\ UNCHANGED <<server, inputs, config, idx, exitCode, chanMade, closed, closeCount, wg,
                   workers, consumer, sentOnClosed>>

\* handleAPIRequest: ioutil.ReadAll(r.Body).
ReadBody ==
    /\ Live /\ pc = "readBody"
    /\ IF readOk
       THEN pc' = "decode" /\ UNCHANGED <<status, callerDone>>
       ELSE pc' = "done" /\ status' = StatusBadRequest /\ callerDone' = TRUE
    /\ UNCHANGED <<server, inputs, config, idx, exitCode, chanMade, closed, closeCount, wg,
                   workers, consumer, sentOnClosed>>

\* loadConfigFromBody, and the caller's reaction to its error.
Decode ==
    /\ Live /\ pc = "decode"
    /\ IF decodeOk
       THEN /\ config' = batch
            /\ pc' = "make"
            /\ UNCHANGED <<status, callerDone, exitCode>>
       ELSE /\ UNCHANGED config
            /\ IF mode = "server"
               THEN /\ pc' = "done"
                    /\ status' = StatusBadRequest
                    /\ callerDone' = TRUE
                    /\ UNCHANGED exitCode
               ELSE Fatal /\ UNCHANGED <<status, callerDone>>
    /\ UNCHANGED <<server, inputs, idx, chanMade, closed, closeCount, wg,
                   workers, consumer, sentOnClosed>>

\* ---------------------------------------------------- caller: the dispatch
\* var wg sync.WaitGroup; results := make(chan string)
MakeChan ==
    /\ Live /\ pc = "make"
    /\ chanMade' = TRUE
    /\ wg' = 0
    /\ pc' = "goConsumer"
    /\ UNCHANGED <<server, inputs, config, idx, status, exitCode, closed, closeCount,
                   callerDone, workers, consumer, sentOnClosed>>

\* go func() { for result := range results { ... } }()
GoConsumer ==
    /\ Live /\ pc = "goConsumer"
    /\ cpc' = "recv"
    /\ pc' = "loop"
    /\ UNCHANGED <<server, inputs, config, idx, status, exitCode, chanMade, closed, closeCount,
                   wg, callerDone, workers, result, resultFrom, sink, sinkFrom,
                   lateWrites, sentOnClosed>>

\* The launch loop, first statement of its body: wg.Add(1).
Add ==
    /\ Live /\ pc = "loop" /\ idx <= Len(config)
    /\ wg' = WgAfterAdd(wg)
    /\ pc' = "go"
    /\ UNCHANGED <<server, inputs, config, idx, status, exitCode, chanMade, closed, closeCount,
                   callerDone, workers, consumer, sentOnClosed>>

\* go sendRequest(reqConfig, &wg, results): the goroutine starts with a copy
\* of the descriptor and, on entry, defers wg.Done.
Go ==
    /\ Live /\ pc = "go"
    /\ wpc' = [wpc EXCEPT ![idx] = "build"]
    /\ wcfg' = [wcfg EXCEPT ![idx] = LaunchArg(config, idx)]
    /\ idx' = idx + 1
    /\ pc' = "loop"
    /\ UNCHANGED <<server, inputs, config, status, exitCode, chanMade, closed, closeCount, wg,
                   callerDone, req, line, deferred, published, doneCalls, fate, calls,
                   consumer, sentOnClosed>>

\* wg.Wait(), reached when the loop is over.
Wait ==
    /\ Live /\ pc = "loop" /\ idx > Len(config)
    /\ WaitReturns(wg)
    /\ pc' = "close"
    /\ UNCHANGED <<server, inputs, config, idx, status, exitCode, chanMade, closed, closeCount,
                   wg, callerDone, workers, consumer, sentOnClosed>>

\* close(results)
Close ==
    /\ Live /\ pc = "close"
    /\ closed' = ClosedByCaller
    /\ closeCount' = closeCount + 1
    /\ pc' = "return"
    /\ UNCHANGED <<server, inputs, config, idx, status, exitCode, chanMade, wg,
                   callerDone, workers, consumer, sentOnClosed>>

\* The caller returns. main falling off its end ends the process, and every
\* goroutine with it; handleAPIRequest returning completes the response (200
\* when nothing was written) while its goroutines live on.
Return ==
    /\ Live /\ pc = "return"
    /\ pc' = "done"
    /\ callerDone' = TRUE
    /\ IF mode = "cli"
       THEN exitCode' = 0 /\ UNCHANGED status
       ELSE status' = (IF status = 0 THEN 200 ELSE status) /\ UNCHANGED exitCode
    /\ UNCHANGED <<server, inputs, config, idx, chanMade, closed, closeCount, wg,
                   workers, consumer, sentOnClosed>>

\* ------------------------------------------------------------ sendRequest
\* Entry to the header loop: defer wg.Done(), the client, http.NewRequest with
\* the selected body, the early return on its error, then the header loop.
BuildRequest(i) ==
    /\ Live /\ i \in Workers /\ wpc[i] = "build"
    /\ deferred' = SetLocal(deferred, i, DeferredAtEntry)
    /\ LET cfg == wcfg[i]
           err == NewRequestError(cfg.Method, cfg.URL)
       IN  IF err # ""
           THEN /\ line' = SetLocal(line, i, CreateErrorLine(cfg.URL, err))
                /\ fate' = [fate EXCEPT ![i] = [stage |-> "create", msg |-> err]]
                /\ wpc' = [wpc EXCEPT ![i] = "send"]
                /\ calls' = [calls EXCEPT ![i].new = @ + 1]
                /\ UNCHANGED <<req, config, wcfg>>
           ELSE /\ \E order \in RangeOrders(cfg.Headers) :
                       req' = SetLocal(req, i, [payload |-> Payload(cfg),
                                                header |-> ApplyHeaders({}, order)])
                /\ wpc' = [wpc EXCEPT ![i] = "do"]
                /\ calls' = [calls EXCEPT ![i].new = @ + 1, ![i].headers = @ + 1]
                /\ config' = [config EXCEPT ![i].Headers = HeadersAfterLoop(@)]
                /\ wcfg' = [wcfg EXCEPT ![i].Headers = HeadersAfterLoop(@)]
                /\ UNCHANGED <<line, fate>>
    /\ UNCHANGED <<server, inputs, pc, idx, status, exitCode, chanMade, closed, closeCount, wg,
                   callerDone, published, doneCalls, consumer, sentOnClosed>>

\* client.Do(req): the network answers with an error or with a response, whose
\* Body.Close is then deferred.
Do(i) ==
    /\ Live /\ i \in Workers /\ wpc[i] = "do"
    /\ \E err \in TransportErrors \cup {""} :
          IF err # ""
          THEN /\ line' = SetLocal(line, i, SendErrorLine(wcfg[i].URL, err))
               /\ fate' = [fate EXCEPT ![i] = [stage |-> "send", msg |-> err]]
               /\ wpc' = [wpc EXCEPT ![i] = AfterTransmissionError]
               /\ UNCHANGED deferred
          ELSE /\ deferred' = SetLocal(deferred, i, DeferClose(deferred[i]))
               /\ wpc' = [wpc EXCEPT ![i] = "read"]
               /\ UNCHANGED <<line, fate>>
    /\ calls' = [calls EXCEPT ![i].do = @ + 1]
    /\ UNCHANGED <<server, inputs, caller, wcfg, req, published, doneCalls, consumer, sentOnClosed>>

\* ioutil.ReadAll(resp.Body) and the Sprintf of the line that follows it.
ReadAll(i) ==
    /\ Live /\ i \in Workers /\ wpc[i] = "read"
    /\ \E okay \in BOOLEAN :
          \E text \in (IF okay THEN ResponseBodies ELSE ReadErrors) :
             /\ line' = SetLocal(line, i, IF okay THEN ResponseLine(wcfg[i].URL, text)
                                                  ELSE ReadErrorLine(wcfg[i].URL, text))
             /\ fate' = [fate EXCEPT ![i] = [stage |-> IF okay THEN "ok" ELSE "read",
                                             msg |-> text]]
    /\ wpc' = [wpc EXCEPT ![i] = "send"]
    /\ calls' = [calls EXCEPT ![i].read = @ + 1]
    /\ UNCHANGED <<server, inputs, caller, wcfg, req, deferred, published, doneCalls,
                   consumer, sentOnClosed>>

\* results <- line. The channel is unbuffered: the send completes together with
\* the consumer's receive. A send on a closed channel panics, which ends the
\* process (exit status 2).
Publish(i) ==
    /\ Live /\ i \in Workers /\ wpc[i] = "send"
    /\ closed \/ SendCompletes(cpc)
    /\ IF closed
       THEN /\ sentOnClosed' = TRUE
            /\ exitCode' = 2
            /\ UNCHANGED <<wpc, published, cpc, result, resultFrom>>
       ELSE /\ result' = line[i]
            /\ resultFrom' = i
            /\ cpc' = "write"
            /\ published' = [published EXCEPT ![i] = @ + 1]
            /\ wpc' = [wpc EXCEPT ![i] = "return"]
            /\ UNCHANGED <<sentOnClosed, exitCode>>
    /\ UNCHANGED <<server, inputs, pc, config, idx, status, chanMade, closed, closeCount, wg,
                   callerDone, wcfg, req, line, deferred, doneCalls, fate, calls,
                   sink, sinkFrom, lateWrites>>

\* Number of wg.Done entries on a stack of deferred calls.
RECURSIVE DonesIn(_)
DonesIn(stack) ==
    IF stack = <<>> THEN 0
    ELSE (IF Head(stack) = "wg.Done" THEN 1 ELSE 0) + DonesIn(Tail(stack))

RECURSIVE WgAfterDones(_, _)
WgAfterDones(n, k) == IF k = 0 THEN n ELSE WgAfterDones(WgAfterDone(n), k - 1)

\* sendRequest returns: its deferred calls run, last deferred first.
ReturnFromSend(i) ==
    /\ Live /\ i \in Workers /\ wpc[i] = "return"
    /\ wg' = WgAfterDones(wg, DonesIn(deferred[i]))
    /\ doneCalls' = [doneCalls EXCEPT ![i] = @ + DonesIn(deferred[i])]
    /\ deferred' = SetLocal(deferred, i, <<>>)
    /\ wpc' = [wpc EXCEPT ![i] = "returned"]
    /\ UNCHANGED <<server, inputs, pc, config, idx, status, exitCode, chanMade, closed,
                   closeCount, callerDone, wcfg, req, line, published, fate, calls,
                   consumer, sentOnClosed>>

\* --------------------------------------------------------------- consumer
\* What a write to w can do once handleAPIRequest has returned, when w may no
\* longer be used: the line still reaches the response, it is lost (refused, or
\* left in a buffer the response has given up), or the write panics (HTTP/2:
\* "Write called after Handler finished"), which ends the process.
LateWriteOutcomes == {"landed", "lost", "panic"}

\* fmt.Println(result) / fmt.Fprintln(w, result).
Write ==
    /\ Live /\ cpc = "write"
    /\ \E outcome \in (IF callerDone THEN LateWriteOutcomes ELSE {"landed"}) :
          /\ sink' = (IF outcome = "landed" THEN Append(sink, SinkLine(mode, result))
                      ELSE sink)
          /\ sinkFrom' = (IF outcome = "landed" THEN Append(sinkFrom, resultFrom)
                          ELSE sinkFrom)
          /\ lateWrites' = (IF outcome = "landed" /\ callerDone THEN lateWrites + 1
                            ELSE lateWrites)
          /\ exitCode' = (IF outcome = "panic" THEN 2 ELSE exitCode)
          /\ cpc' = (IF outcome = "panic" THEN cpc ELSE "recv")
    /\ status' = (IF mode = "server" /\ status = 0 THEN 200 ELSE status)
    /\ UNCHANGED <<server, inputs, pc, config, idx, chanMade, closed, closeCount, wg,
                   callerDone, workers, result, resultFrom, sentOnClosed>>

\* The range loop finds the channel closed and the goroutine ends.
RangeEnd ==
    /\ Live /\ cpc = "recv" /\ closed
    /\ sink' = sink \o RangeEndLines
    /\ sinkFrom' = sinkFrom \o [j \in 1..Len(RangeEndLines) |-> 0]
    /\ cpc' = "exit"
    /\ UNCHANGED <<server, inputs, caller, workers, result, resultFrom, lateWrites, sentOnClosed>>

\* ---------------------------------------------------------- specification
CallerStep ==
    \/ ReadFile
    \/ Route
    \/ CheckMethod
    \/ ReadBody
    \/ Decode
    \/ MakeChan
    \/ GoConsumer
    \/ Add
    \/ Go
    \/ Wait
    \/ Close
    \/ Return

\* The steps of a worker that do not wait on the network.
LocalStep(i) ==
    \/ BuildRequest(i)
    \/ Publish(i)
    \/ ReturnFromSend(i)

\* The steps of a worker that end a wait on the network.
NetworkStep(i) ==
    \/ Do(i)
    \/ ReadAll(i)

ConsumerStep ==
    \/ Write
    \/ RangeEnd

Next ==
    \/ CallerStep
    \/ \E i \in 1..MaxBatch : LocalStep(i) \/ NetworkStep(i)
    \/ ConsumerStep

Spec == Init /\ [][Next]_vars

\* The same program on the single-descriptor submissions.
UnitSpec == UnitInit /\ [][Next]_vars

\* Scheduling: every goroutine that can run eventually does. Network calls
\* are not assumed to return.
Scheduled ==
    /\ WF_vars(CallerStep)
    /\ WF_vars(ConsumerStep)
    /\ \A i \in 1..MaxBatch : WF_vars(LocalStep(i))

\* Every network call eventually returns, successfully or with an error.
NetworkAnswers == \A i \in 1..MaxBatch : WF_vars(NetworkStep(i))

StreamSpec == Spec /\ Scheduled
FairSpec == Spec /\ Scheduled /\ NetworkAnswers

\* ------------------------------------------- two invocations on one server
\* net/http runs each request's handler in a goroutine of its own. Two POST
\* requests with well-formed bodies are in handleAPIRequest at the same time,
\* each past its decoding. A sendRequest execution is taken in one step up to
\* its send: until then it touches nothing but its own locals.
MaxServerBatch == 1
ServerDescriptors == {DescOk, DescBad}
ServerBatches == SeqsOf(ServerDescriptors, MaxServerBatch)

HLive == hExit = -1
HWorkers(r) == 1..Len(hBatch[r])

\* The single-request machine, at rest while the two-invocation server runs.
OneRequestIdle ==
    /\ mode = "server" /\ listener = "h1" /\ reqMethod = "POST"
    /\ readOk = TRUE /\ decodeOk = TRUE
    /\ batch = <<>>
    /\ pc = "done" /\ config = <<>> /\ idx = 1 /\ status = 0 /\ exitCode = -1
    /\ chanMade = FALSE /\ closed = FALSE /\ closeCount = 0 /\ wg = 0
    /\ callerDone = FALSE
    /\ wpc = <<>> /\ wcfg = <<>> /\ req = <<>> /\ line = <<>> /\ deferred = <<>>
    /\ published = <<>> /\ doneCalls = <<>> /\ fate = <<>> /\ calls = <<>>
    /\ cpc = "none" /\ result = "" /\ resultFrom = 0
    /\ sink = <<>> /\ sinkFrom = <<>> /\ lateWrites = 0
    /\ sentOnClosed = FALSE

ServerInit ==
    /\ OneRequestIdle
    /\ hBatch \in [Handlers -> ServerBatches]
    /\ hPc = [r \in Handlers |-> "make"]
    /\ hIdx = [r \in Handlers |-> 1]
    /\ hDone = [r \in Handlers |-> FALSE]
    /\ hWg = [o \in Handlers |-> 0]
    /\ hChan = [o \in Handlers |-> "none"]
    /\ hWpc = [r \in Handlers |-> [i \in HWorkers(r) |-> "idle"]]
    /\ hLine = [r \in Handlers |-> [i \in HWorkers(r) |-> ""]]
    /\ hCpc = [r \in Handlers |-> "none"]
    /\ hResult = [r \in Handlers |-> NoResult]
    /\ hResp = [r \in Handlers |-> <<>>]
    /\ hExit = -1

oneRequest == <<inputs, caller, workers, consumer, sentOnClosed>>

\* var wg sync.WaitGroup; results := make(chan string)
ServerMakeChan(r) ==
    /\ HLive /\ hPc[r] = "make"
    /\ hWg' = [hWg EXCEPT ![WgOf(r)] = 0]
    /\ hChan' = [hChan EXCEPT ![ChanOf(r)] = "open"]
    /\ hPc' = [hPc EXCEPT ![r] = "consumer"]
    /\ UNCHANGED <<oneRequest, hBatch, hIdx, hDone, hWpc, hLine, hCpc, hResult, hResp, hExit>>

\* go func() { for result := range results { ... } }()
ServerGoConsumer(r) ==
    /\ HLive /\ hPc[r] = "consumer"
    /\ hCpc' = [hCpc EXCEPT ![r] = "recv"]
    /\ hPc' = [hPc EXCEPT ![r] = "loop"]
    /\ UNCHANGED <<oneRequest, hBatch, hIdx, hDone, hWg, hChan, hWpc, hLine, hResult, hResp,
                   hExit>>

\* wg.Add(1)
ServerAdd(r) ==
    /\ HLive /\ hPc[r] = "loop" /\ hIdx[r] <= Len(hBatch[r])
    /\ hWg' = [hWg EXCEPT ![WgOf(r)] = WgAfterAdd(@)]
    /\ hPc' = [hPc EXCEPT ![r] = "go"]
    /\ UNCHANGED <<oneRequest, hBatch, hIdx, hDone, hChan, hWpc, hLine, hCpc, hResult, hResp,
                   hExit>>

\* go sendRequest(reqConfig, &wg, results)
ServerGo(r) ==
    /\ HLive /\ hPc[r] = "go"
    /\ hWpc' = [hWpc EXCEPT ![r][hIdx[r]] = "run"]
    /\ hIdx' = [hIdx EXCEPT ![r] = @ + 1]
    /\ hPc' = [hPc EXCEPT ![r] = "loop"]
    /\ UNCHANGED <<oneRequest, hBatch, hDone, hWg, hChan, hLine, hCpc, hResult, hResp, hExit>>

\* wg.Wait()
ServerWait(r) ==
    /\ HLive /\ hPc[r] = "loop" /\ hIdx[r] > Len(hBatch[r])
    /\ WaitReturns(hWg[WgOf(r)])
    /\ hPc' = [hPc EXCEPT ![r] = "close"]
    /\ UNCHANGED <<oneRequest, hBatch, hIdx, hDone, hWg, hChan, hWpc, hLine, hCpc, hResult,
                   hResp, hExit>>

\* close(results); closing a closed channel panics.
ServerClose(r) ==
    /\ HLive /\ hPc[r] = "close"
    /\ IF hChan[ChanOf(r)] = "closed"
       THEN hExit' = 2 /\ UNCHANGED <<hChan, hPc>>
       ELSE /\ hChan' = [hChan EXCEPT ![ChanOf(r)] = "closed"]
            /\ hPc' = [hPc EXCEPT ![r] = "return"]
            /\ UNCHANGED hExit
    /\ UNCHANGED <<oneRequest, hBatch, hIdx, hDone, hWg, hWpc, hLine, hCpc, hResult, hResp>>

\* handleAPIRequest returns: the response is finished.
ServerReturn(r) ==
    /\ HLive /\ hPc[r] = "return"
    /\ hDone' = [hDone EXCEPT ![r] = TRUE]
    /\ hPc' = [hPc EXCEPT ![r] = "done"]
    /\ UNCHANGED <<oneRequest, hBatch, hIdx, hWg, hChan, hWpc, hLine, hCpc, hResult, hResp,
                   hExit>>

\* sendRequest from its entry to the Sprintf of its line.
ServerExecute(r, i) ==
    /\ HLive /\ i \in HWorkers(r) /\ hWpc[r][i] = "run"
    /\ \E f \in Fates(hBatch[r][i]) :
          hLine' = [hLine EXCEPT ![r][i] = OutcomeLine(hBatch[r][i], f)]
    /\ hWpc' = [hWpc EXCEPT ![r][i] = "send"]
    /\ UNCHANGED <<oneRequest, hBatch, hPc, hIdx, hDone, hWg, hChan, hCpc, hResult, hResp,
                   hExit>>

\* results <- line: received by a consumer ranging over the same channel.
ServerPublish(r, i) ==
    /\ HLive /\ i \in HWorkers(r) /\ hWpc[r][i] = "send"
    /\ LET c == ChanOf(r)
       IN  IF hChan[c] = "closed"
           THEN hExit' = 2 /\ UNCHANGED <<hWpc, hCpc, hResult>>
           ELSE /\ hChan[c] = "open"
                /\ \E q \in Handlers :
                      /\ ChanOf(q) = c /\ SendCompletes(hCpc[q])
                      /\ hResult' = [hResult EXCEPT
                                        ![q] = [text |-> hLine[r][i], of |-> <<r, i>>]]
                      /\ hCpc' = [hCpc EXCEPT ![q] = "write"]
                /\ hWpc' = [hWpc EXCEPT ![r][i] = "return"]
                /\ UNCHANGED hExit
    /\ UNCHANGED <<oneRequest, hBatch, hPc, hIdx, hDone, hWg, hChan, hLine, hResp>>

\* sendRequest returns: the deferred wg.Done runs.
ServerReturnFromSend(r, i) ==
    /\ HLive /\ i \in HWorkers(r) /\ hWpc[r][i] = "return"
    /\ hWg' = [hWg EXCEPT ![WgOf(r)] = WgAfterDone(@)]
    /\ hWpc' = [hWpc EXCEPT ![r][i] = "returned"]
    /\ UNCHANGED <<oneRequest, hBatch, hPc, hIdx, hDone, hChan, hLine, hCpc, hResult, hResp,
                   hExit>>

\* fmt.Fprintln(w, result), w being the invocation's own ResponseWriter. The
\* other invocation's response was set up before q's returned, so what q gives
\* up on returning is not part of it.
ServerWrite(q) ==
    /\ HLive /\ hCpc[q] = "write"
    /\ \E outcome \in (IF hDone[q] THEN LateWriteOutcomes ELSE {"landed"}) :
          /\ hResp' = (IF outcome = "landed"
                       THEN [hResp EXCEPT ![q] = Append(@, hResult[q])]
                       ELSE hResp)
          /\ hExit' = (IF outcome = "panic" THEN 2 ELSE hExit)
          /\ hCpc' = (IF outcome = "panic" THEN hCpc ELSE [hCpc EXCEPT ![q] = "recv"])
    /\ UNCHANGED <<oneRequest, hBatch, hPc, hIdx, hDone, hWg, hChan, hWpc, hLine, hResult>>

\* The range loop finds its channel closed.
ServerRangeEnd(q) ==
    /\ HLive /\ hCpc[q] = "recv" /\ hChan[ChanOf(q)] = "closed"
    /\ hCpc' = [hCpc EXCEPT ![q] = "exit"]
    /\ UNCHANGED <<oneRequest, hBatch, hPc, hIdx, hDone, hWg, hChan, hWpc, hLine, hResult,
                   hResp, hExit>>

ServerCallerStep(r) ==
    \/ ServerMakeChan(r)
    \/ ServerGoConsumer(r)
    \/ ServerAdd(r)
    \/ ServerGo(r)
    \/ ServerWait(r)
    \/ ServerClose(r)
    \/ ServerReturn(r)

ServerWorkerStep(r, i) ==
    \/ ServerExecute(r, i)
    \/ ServerPublish(r, i)
    \/ ServerReturnFromSend(r, i)

ServerConsumerStep(r) ==
    \/ ServerWrite(r)
    \/ ServerRangeEnd(r)

ServerNext ==
    \E r \in Handlers :
        \/ ServerCallerStep(r)
        \/ \E i \in 1..MaxServerBatch : ServerWorkerStep(r, i)
        \/ ServerConsumerStep(r)

ServerSpec == ServerInit /\ [][ServerNext]_vars

\* =================================================================== claims
DispatchOver == pc \in {"close", "return", "done"}

\* C1. Completeness: when close(results) executes, every descriptor's outcome
\* has been received exactly once (none dropped, none duplicated); the channel
\* is closed at most once and nothing is ever sent on it once it is closed.
C1_Completeness ==
    /\ closeCount <= 1
    /\ closed <=> closeCount = 1
    /\ ~sentOnClosed
    /\ \A i \in Workers : published[i] <= 1
    /\ (pc = "close" \/ closed) => \A i \in Workers : published[i] = 1

C1_Witness ==
    /\ closed
    /\ N >= 2
    /\ \A i \in Workers : published[i] = 1

\* C2. When the caller has finished after a dispatch, all N lines are on the
\* sink, and the consumer writes nothing to the sink after that.
C2_AllLinesByReturn ==
    (chanMade /\ callerDone) => (Len(sink) = N /\ lateWrites = 0)

\* C3. Bounded lifetime: with every goroutine scheduled and every network call
\* answered, the caller eventually finishes, a dispatch that finishes has
\* closed results and returned, and no state of a running dispatch is a
\* deadlock (some goroutine can always take a step).
C3_BoundedLifetime ==
    /\ [](chanMade /\ ~callerDone => ENABLED Next)
    /\ [](chanMade /\ pc = "done" => closed /\ callerDone)
    /\ <>(pc = "done")

C3_Witness ==
    /\ closed /\ callerDone
    /\ N >= 2
    /\ \E i \in Workers : fate[i].stage = "ok"

\* C4. Isolation: the line a worker publishes is determined by its own
\* descriptor and by what the network answered to it alone; once produced no
\* sibling changes it; a sibling's failure keeps no outcome from being
\* delivered, aborts nothing and makes the dispatch itself fail in no way.
Produced(i) == wpc[i] \in {"send", "return", "returned"}

IsolationInv ==
    /\ \A i \in Workers :
          /\ wpc[i] # "idle" => wcfg[i] = batch[i]
          /\ Produced(i) => line[i] = OutcomeLine(batch[i], fate[i])
          /\ Produced(i) =>
                (fate[i].stage = "create" <=>
                    NewRequestError(batch[i].Method, batch[i].URL) # "")
    /\ (chanMade /\ DispatchOver) => \A i \in Workers : published[i] = 1
    /\ chanMade => status \in {0, 200}
    /\ (chanMade /\ ~callerDone) => exitCode = -1
    /\ (chanMade /\ callerDone) => exitCode = (IF mode = "cli" THEN 0 ELSE exitCode)
    /\ exitCode = 2 => (mode = "server" /\ callerDone /\ \A i \in Workers : published[i] = 1)

C4_Isolation ==
    /\ []IsolationInv
    /\ [][\A i \in Workers : Produced(i) => (Produced(i)' /\ line'[i] = line[i])]_vars

C4_Witness ==
    /\ closed
    /\ \E i, j \in Workers :
          /\ fate[i].stage = "send" /\ published[i] = 1
          /\ fate[j].stage = "ok" /\ published[j] = 1

\* C5. Empty batch: no executor is launched, the WaitGroup counter stays zero
\* so wg.Wait does not block, the channel is closed with nothing ever sent, and
\* nothing is written to the sink.
C5_EmptyBatch ==
    (chanMade /\ Len(config) = 0) =>
        /\ Workers = {}
        /\ wg = 0
        /\ pc \notin {"go"}
        /\ (pc = "loop" => ENABLED Wait)
        /\ cpc \in {"none", "recv", "exit"}
        /\ sink = <<>>
        /\ ~sentOnClosed

C5_Witness ==
    /\ chanMade /\ Len(config) = 0
    /\ closed /\ callerDone
    /\ cpc = "exit"

\* C6. Streaming: an outcome that a worker has produced is eventually written
\* to the sink, whether or not its siblings' network calls ever return.
Written(i) == \E j \in 1..Len(sinkFrom) : sinkFrom[j] = i

C6_ProducedIsWritten ==
    \A i \in 1..MaxBatch : (i \in Workers /\ wpc[i] = "send") ~> Written(i)

\* C7. Outcome line format. As claimed: every failure line reads
\* "Error {stage} for {target}: {message}" with the stage's name.
StageName(stage) ==
    CASE stage = "create" -> "request-construction"
      [] stage = "send" -> "transmission"
      [] stage = "read" -> "response-read"
      [] OTHER -> ""

ClaimedLine(url, f) ==
    IF f.stage = "ok" THEN "Response from " \o url \o ": " \o f.msg
    ELSE "Error " \o StageName(f.stage) \o " for " \o url \o ": " \o f.msg

C7_ClaimedFormat ==
    /\ \A i \in Workers : Produced(i) => line[i] = ClaimedLine(batch[i].URL, fate[i])
    /\ \A j \in 1..Len(sink) : sink[j] = ClaimedLine(batch[sinkFrom[j]].URL, fate[sinkFrom[j]])

\* C7, amended. The failure lines read "Error creating request for {target}:
\* {message}", "Error sending request to {target}: {message}" and "Error
\* reading response from {target}: {message}"; the success line is as claimed.
EmittedLine(url, f) ==
    CASE f.stage = "ok" -> "Response from " \o url \o ": " \o f.msg
      [] f.stage = "create" -> "Error creating request for " \o url \o ": " \o f.msg
      [] f.stage = "send" -> "Error sending request to " \o url \o ": " \o f.msg
      [] f.stage = "read" -> "Error reading response from " \o url \o ": " \o f.msg
      [] OTHER -> ""

C7_EmittedFormat ==
    /\ \A i \in Workers : Produced(i) => line[i] = EmittedLine(batch[i].URL, fate[i])
    /\ \A j \in 1..Len(sink) : sink[j] = EmittedLine(batch[sinkFrom[j]].URL, fate[sinkFrom[j]])

C7_Witness ==
    /\ \E j \in 1..Len(sink) :
          sink[j] = "Error sending request to https://example.test/down: connection refused"
    /\ \E j \in 1..Len(sink) :
          sink[j] = "Response from https://example.test/ok: hello"

\* C8. A malformed submission never reaches the engine: no channel, no
\* consumer, no executor, no line; handleAPIRequest answers 405 to a method
\* other than POST and 400 to an unreadable or undecodable body, and the CLI
\* path ends the process (status 1) on an unreadable or undecodable file.
Malformed ==
    \/ mode = "server" /\ reqMethod # "POST"
    \/ ~readOk
    \/ ~decodeOk

\* The status handleAPIRequest owes a malformed request, by the first check it fails.
OwedStatus ==
    IF reqMethod # "POST" THEN 405 ELSE 400

C8_MalformedNeverDispatched ==
    Malformed =>
        /\ ~chanMade
        /\ cpc = "none"
        /\ \A i \in Workers : wpc[i] = "idle"
        /\ wg = 0
        /\ sink = <<>>
        /\ pc \notin {"make", "goConsumer", "loop", "go", "close", "return"}
        /\ (pc = "done" /\ mode = "server" /\ RoutesToDispatch(listener)) =>
              (status = OwedStatus /\ callerDone)
        /\ (pc = "done" /\ mode = "cli") => (exitCode = 1 /\ status = 0)

C8_Witness ==
    /\ mode = "server" /\ listener = "h1"
    /\ reqMethod = "GET" /\ readOk /\ decodeOk /\ N >= 1
    /\ pc = "done" /\ status = 405

\* C9. In -http3 mode a batch POSTed to either listener is handed to
\* handleAPIRequest and dispatched: the response is that of the dispatch.
C9_BothListenersDispatch ==
    (mode = "server" /\ reqMethod = "POST" /\ readOk /\ decodeOk /\ pc = "done") =>
        (chanMade /\ closed /\ status = 200)

\* C10. Every path through sendRequest publishes exactly one line and calls
\* wg.Done exactly once, after that line has been received; nothing escapes
\* it as a panic; the line the consumer holds is one a worker published.
C10_OnePublishOneDone ==
    /\ ~sentOnClosed
    /\ exitCode = 2 => (cpc = "write" /\ callerDone)
    /\ wg >= 0
    /\ wg = Cardinality({i \in Workers : wpc[i] # "idle" /\ doneCalls[i] = 0})
          + (IF pc = "go" THEN 1 ELSE 0)
    /\ \A i \in Workers :
          /\ published[i] <= 1
          /\ doneCalls[i] <= published[i]
          /\ wpc[i] \in {"return", "returned"} <=> published[i] = 1
          /\ wpc[i] = "returned" <=> doneCalls[i] = 1
          /\ published[i] = 1 => fate[i].stage \in {"create", "send", "read", "ok"}
    /\ cpc = "write" =>
          (resultFrom \in Workers /\ published[resultFrom] = 1 /\ result = line[resultFrom])

C10_Witness ==
    /\ N >= 2
    /\ \A i \in Workers : wpc[i] = "returned"
    /\ \E i, j \in Workers : fate[i].stage = "create" /\ fate[j].stage = "read"

\* C11. One network transmission per execution when construction succeeds,
\* none when it fails; a construction failure is followed by no header loop,
\* no client.Do and no read; a transmission failure is followed by no read; no
\* stage runs twice.
C11_OneTransmission ==
    \A i \in Workers :
        /\ calls[i].new <= 1 /\ calls[i].headers <= 1
        /\ calls[i].do <= 1 /\ calls[i].read <= 1
        /\ NewRequestError(batch[i].Method, batch[i].URL) # "" =>
              (calls[i].headers = 0 /\ calls[i].do = 0 /\ calls[i].read = 0)
        /\ Produced(i) =>
              /\ calls[i].new = 1
              /\ fate[i].stage = "create" =>
                    (calls[i].headers = 0 /\ calls[i].do = 0 /\ calls[i].read = 0
                     /\ req[i] = NoRequest)
              /\ fate[i].stage # "create" => (calls[i].headers = 1 /\ calls[i].do = 1)
              /\ fate[i].stage = "send" => calls[i].read = 0
              /\ fate[i].stage \in {"read", "ok"} => calls[i].read = 1
        /\ ~Produced(i) => fate[i].stage = "running"

C11_Witness ==
    /\ N >= 2
    /\ \A i \in Workers : wpc[i] = "returned"
    /\ \E i, j \in Workers :
          /\ fate[i].stage = "create" /\ calls[i].do = 0
          /\ fate[j].stage = "send" /\ calls[j].do = 1 /\ calls[j].read = 0

\* C12. Payload selection: a descriptor whose method is POST, PUT or PATCH and
\* whose body is present is sent with the serialized body; every other
\* descriptor is sent with an empty payload.
Constructed(i) == calls[i].headers = 1

BodyBearing == {"POST", "PUT", "PATCH"}

C12_PayloadSelection ==
    \A i \in Workers :
        Constructed(i) =>
            req[i].payload =
                IF batch[i].Method \in BodyBearing /\ batch[i].Body.present
                THEN Marshal(batch[i].Body.fields)
                ELSE ""

\* C13. Header application is order-independent: the headers of the request
\* are determined by the descriptor's mapping alone, each entry being on the
\* request under its canonical name with its mapped value, whatever order the
\* loop visits the entries in.
C13_HeadersOrderIndependent ==
    \A i \in Workers :
        Constructed(i) =>
            /\ \A order \in RangeOrders(batch[i].Headers) :
                  req[i].header = ApplyHeaders({}, order)
            /\ \A h \in batch[i].Headers : <<CanonicalKey(h[1]), h[2]>> \in req[i].header

\* C14. Unordered fan-out: the goroutines launched are exactly the first
\* idx-1 indices, the i-th holding the i-th descriptor; all N are launched
\* before the wait is passed; the launch never waits for a launched sibling;
\* no start, network call or publish of an execution waits for a sibling, so
\* the outcomes can be delivered in any order.
Launched(i) == wpc[i] # "idle"

\* The dispatch is past wg.Wait.
PastLaunch == chanMade /\ pc \in {"close", "return", "done"}

C14_FanOut ==
    /\ \A i \in Workers :
          /\ Launched(i) <=> (chanMade /\ i < idx)
          /\ Launched(i) => wcfg[i] = batch[i]
          /\ (Live /\ wpc[i] = "build") => ENABLED BuildRequest(i)
          /\ (Live /\ wpc[i] = "do") => ENABLED Do(i)
          /\ (Live /\ wpc[i] = "read") => ENABLED ReadAll(i)
          /\ (Live /\ wpc[i] = "send" /\ cpc = "recv") => ENABLED Publish(i)
    /\ PastLaunch => \A i \in Workers : Launched(i)
    /\ (Live /\ pc = "loop" /\ idx <= N) => ENABLED Add
    /\ (Live /\ pc = "go") => ENABLED Go

\* The second descriptor's outcome is written before the first one's.
C14_Witness ==
    /\ N = 2
    /\ batch[1] # batch[2]
    /\ sinkFrom = <<2, 1>>
    /\ sink = <<line[2], line[1]>>

\* C15. The command path and the server path are the same engine: on either
\* path the launched executions are the batch's descriptors, every outcome line
\* is the same function of the descriptor and of its target's behaviour, the
\* lines on the sink are outcome lines received from distinct executions,
\* written unaltered, and the dispatch is left only when every outcome has
\* been received.
PathFree(i) ==
    /\ Launched(i) => wcfg[i] = batch[i]
    /\ Produced(i) => line[i] = OutcomeLine(batch[i], fate[i])
    /\ published[i] = 1 => wpc[i] \in {"return", "returned"}

ExecutorSteps == \E i \in Workers : wpc[i] # "idle" /\ wpc'[i] # wpc[i]

C16_ReadOnly ==
    /\ [](/\ config \in {<<>>, batch}
          /\ \A i \in Workers : wpc[i] # "idle" => (config = batch /\ wcfg[i] = batch[i]))
    /\ [][/\ batch' = batch
          /\ config # <<>> => config' = config
          /\ \A i \in Workers : wpc[i] # "idle" => wcfg'[i] = wcfg[i]
          /\ ExecutorSteps =>
                UNCHANGED <<server, inputs, pc, config, idx, status, exitCode, chanMade, closed,
                            closeCount, callerDone, wcfg, sink, sinkFrom, lateWrites,
                            sentOnClosed>>]_vars

\* A descriptor with headers and a body has been executed to its end.
C16_Witness ==
    /\ N = 2
    /\ \A i \in Workers : wpc[i] = "returned"
    /\ \E i \in Workers :
          /\ batch[i].Headers # {} /\ batch[i].Body.present
          /\ calls[i].headers = 1 /\ calls[i].do = 1
          /\ req[i].header # batch[i].Headers

\* C17. At most one outcome line is received and not yet written: in every
\* state the lines on the sink number at least the outcomes received minus
\* one, the difference being the line the consumer holds between its receive
\* and its write; when close(results) executes, at least N-1 lines are on the
\* sink.
Received == Cardinality({i \in Workers : published[i] >= 1})

C17_OneInHand ==
    /\ [](/\ Len(sink) + 1 >= Received
          /\ Len(sink) <= Received
          /\ cpc = "write" => (published[resultFrom] = 1 /\ result = line[resultFrom])
          /\ (cpc = "recv" /\ ~callerDone) => Len(sink) = Received
          /\ pc = "close" => Len(sink) + 1 >= N)
    /\ [][closed' # closed => (Received = N /\ Len(sink) >= N - 1)]_vars

\* close(results) is about to execute with the last received line unwritten.
C17_Witness ==
    /\ pc = "close"
    /\ N = 2
    /\ cpc = "write"
    /\ Len(sink) = N - 1

\* C18. No goroutine leak: when every network call returns, every goroutine
\* of a dispatch eventually ends and stays ended: each sendRequest goroutine
\* returns, having published once and run wg.Done once, and the consumer's
\* range loop ends, which it does only once the channel is closed. (On the
\* command path the process ends, and its goroutines with it.)
Ended(i) == wpc[i] = "returned" /\ published[i] = 1 /\ doneCalls[i] = 1

GoroutinesGone ==
    \/ ~Live
    \/ /\ pc = "done"
       /\ chanMade => (cpc = "exit" /\ \A i \in Workers : Ended(i))
       /\ ~chanMade => (cpc = "none" /\ \A i \in Workers : wpc[i] = "idle")

C18_NoLeak ==
    /\ [](/\ \A i \in Workers : wpc[i] = "returned" => Ended(i)
          /\ cpc = "exit" => (closed /\ \A i \in Workers : Ended(i)))
    /\ [][GoroutinesGone => GoroutinesGone']_vars
    /\ <>GoroutinesGone

\* A server request's goroutines have all ended.
C18_Witness ==
    /\ mode = "server"
    /\ Live
    /\ N = 2
    /\ GoroutinesGone
    /\ cpc = "exit"

\* C19. Two invocations of handleAPIRequest running at the same time are
\* independent: every line an invocation's consumer receives, and every line
\* on its response, is one of its own batch; its WaitGroup counts its own
\* unfinished executors and nothing else; its close(results) comes after all
\* of its own executors have returned, and its wg.Wait returns as soon as they
\* have, whatever the other invocation's executors do; its channel is closed
\* by itself alone.
OwnReturned(r) == \A i \in HWorkers(r) : hWpc[r][i] = "returned"

IndependentOf(r) ==
    /\ \A k \in 1..Len(hResp[r]) :
          /\ hResp[r][k].of[1] = r
          /\ hResp[r][k].text = hLine[r][hResp[r][k].of[2]]
    /\ hCpc[r] = "write" => hResult[r].of[1] = r
    /\ hPc[r] # "make" =>
          hWg[r] = Cardinality({i \in HWorkers(r) : hWpc[r][i] \notin {"idle", "returned"}})
                   + (IF hPc[r] = "go" THEN 1 ELSE 0)
    /\ hPc[r] \in {"close", "return", "done"} => OwnReturned(r)
    /\ (HLive /\ hPc[r] = "loop" /\ hIdx[r] > Len(hBatch[r]) /\ OwnReturned(r)) =>
          ENABLED ServerWait(r)
    /\ hChan[r] = "closed" <=> hPc[r] \in {"return", "done"}
    /\ hCpc[r] = "exit" => hPc[r] \in {"return", "done"}

C19_Independent == \A r \in Handlers : IndependentOf(r)

\* One invocation has closed, returned and written its line while the other's
\* executor is still out; or the reverse.
C19_Witness ==
    \E r, q \in Handlers :
        /\ r # q
        /\ HLive
        /\ hPc[r] = "done" /\ hCpc[r] = "exit"
        /\ Len(hBatch[r]) >= 1 /\ Len(hResp[r]) = Len(hBatch[r])
        /\ Len(hBatch[q]) >= 1 /\ hPc[q] = "loop"
        /\ \E i \in HWorkers(q) : hWpc[q][i] = "run"

====
